---- MODULE Spec2Model ----
(***************************************************************************)
(* Model of the debouncing state machine of src/debouncer.rs and of its    *)
(* u8 adapters (src/pin.rs).  A Debouncer is the record of its four        *)
(* fields; update is the function of (debouncer, sample) that the code     *)
(* computes, branch by branch, in the order the code tests them.           *)
(***************************************************************************)
EXTENDS Integers, Sequences, FiniteSets, TLC

VARIABLES current_state, next_state, repetition_count, threshold,
          inital_state, panicked, calls, other

vars == <<current_state, next_state, repetition_count, threshold,
          inital_state, panicked, calls, other>>

(* ---------------------------- bounds ---------------------------------- *)

\* largest threshold a machine is constructed with
MaxThreshold == 4

\* largest number of update calls made on one machine
MaxCalls == 8

\* largest number of update calls made on two machines together
MaxInterleaved == 5

(* ------------------------- value domains ------------------------------ *)

\* the state type T: three pairwise distinct values (T: PartialEq + Copy)
States == {"A", "B", "C"}

\* the counter type S of the adapters is u8
CounterMax == 255

\* debug builds panic on integer overflow, release builds wrap
Builds == {"debug", "release"}

\* Option<Edge<T>>
None == <<>>

\* no second instance has been constructed
NoOther == <<>>

Some(e) == <<e>>

\* Edge::new
Edge(from, to) == [from |-> from, to |-> to]

(* --------------------------- Debouncer -------------------------------- *)

\* new, had it started the counter at one
new_CountFromOne(th, initial) ==
    [current_state    |-> initial,
     next_state       |-> initial,
     repetition_count |-> 1,
     threshold        |-> th]

\* Debouncer::new
new(th, initial) ==
    [current_state    |-> initial,
     next_state       |-> initial,
     repetition_count |-> th,
     threshold        |-> th]

\* is_state, had it compared the stable value only
is_state_CurrentOnly(d, state) == d.current_state = state

\* Debouncer::is_state
is_state(d, state) ==
    d.current_state = d.next_state /\ d.current_state = state

\* S::one()
one == 1

\* repetition_count + S::one() overflows the counter type
overflows(d) == d.repetition_count + one > CounterMax

\* repetition_count + S::one() in the counter type (wrapping on overflow)
add_one(d) == (d.repetition_count + one) % (CounterMax + 1)

\* the first branch, had it restarted the counter
same_as_current_Restarts(d, state) ==
    [d |-> [d EXCEPT !.next_state = state, !.repetition_count = 1],
     ret |-> <<>>]

\* first branch: the sample is the stable value
same_as_current(d, state) ==
    [d |-> [d EXCEPT !.next_state = state], ret |-> None]

\* the second branch, had it kept the counter of the previous candidate
new_candidate_KeepsCount(d, state) ==
    [d |-> [d EXCEPT !.next_state = state], ret |-> <<>>]

\* second branch: a new candidate value
new_candidate(d, state) ==
    [d |-> [d EXCEPT !.next_state = state, !.repetition_count = one],
     ret |-> None]

\* the guard of the third branch, had it been <=
below_threshold_Inclusive(d) ==
    (d.repetition_count + 1) % (CounterMax + 1) <= d.threshold

\* guard of the third branch, after the two comparisons of the states
below_threshold(d) == add_one(d) < d.threshold

\* third branch: the candidate is seen again, not often enough yet
reinforce(d, state) ==
    [d |-> [d EXCEPT !.next_state = state, !.repetition_count = add_one(d)],
     ret |-> None]

\* the guard of the fourth branch, had it been >
reaches_threshold_Strict(d) ==
    (d.repetition_count + 1) % (CounterMax + 1) > d.threshold

\* guard of the fourth branch, after the two comparisons of the states
reaches_threshold(d) == add_one(d) >= d.threshold

\* the fourth branch, had its last assignment been written the other way
\* round
confirm_AssignsThreshold(d, state) ==
    [d |-> [d EXCEPT !.current_state = state,
                     !.next_state = state,
                     !.threshold = d.repetition_count],
     ret |-> <<[from |-> d.current_state, to |-> d.next_state]>>]

\* the fourth branch, had it taken both ends of the edge after the update
confirm_FromCandidate(d, state) ==
    [d |-> [d EXCEPT !.current_state = state,
                     !.next_state = state,
                     !.repetition_count = d.threshold],
     ret |-> <<[from |-> d.next_state, to |-> d.next_state]>>]

\* the fourth branch, had it not reported the edge
confirm_Silent(d, state) ==
    [d |-> [d EXCEPT !.current_state = state,
                     !.next_state = state,
                     !.repetition_count = d.threshold],
     ret |-> <<>>]

\* the fourth branch, had it restarted the counter instead of pinning it
confirm_Restarts(d, state) ==
    [d |-> [d EXCEPT !.current_state = state,
                     !.next_state = state,
                     !.repetition_count = 1],
     ret |-> <<[from |-> d.current_state, to |-> d.next_state]>>]

\* fourth branch: the candidate is confirmed
confirm(d, state) ==
    [d |-> [d EXCEPT !.current_state = state,
                     !.next_state = state,
                     !.repetition_count = d.threshold],
     ret |-> Some(Edge(d.current_state, d.next_state))]

\* the trailing else
fallback(d) == [d |-> d, ret |-> None]

\* the call evaluates repetition_count + S::one(): both state comparisons
\* of the third branch held (&& short-circuits)
evaluates_add(d, state) ==
    d.current_state # state /\ d.next_state = state

\* Debouncer::update of a call that returns
update(d, state) ==
    IF d.current_state = state
      THEN same_as_current(d, state)
    ELSE IF d.current_state # state /\ d.next_state # state
      THEN new_candidate(d, state)
    ELSE IF d.current_state # state /\ d.next_state = state
            /\ below_threshold(d)
      THEN reinforce(d, state)
    ELSE IF d.current_state # state /\ d.next_state = state
            /\ reaches_threshold(d)
      THEN confirm(d, state)
    ELSE fallback(d)

\* the condition of the k-th guarded branch of update, on its own
branch_condition(k, d, state) ==
    IF k = 1 THEN d.current_state = state
    ELSE IF k = 2 THEN d.current_state # state /\ d.next_state # state
    ELSE IF k = 3 THEN d.current_state # state /\ d.next_state = state
                       /\ below_threshold(d)
    ELSE d.current_state # state /\ d.next_state = state
         /\ reaches_threshold(d)

\* the branch of update that a call executes: 1..4, or 5 for the trailing
\* else
branch_taken(d, state) ==
    IF branch_condition(1, d, state) THEN 1
    ELSE IF branch_condition(2, d, state) THEN 2
    ELSE IF branch_condition(3, d, state) THEN 3
    ELSE IF branch_condition(4, d, state) THEN 4
    ELSE 5

\* the call panics: the addition overflows in a build that checks it
update_panics(d, state, build) ==
    evaluates_add(d, state) /\ overflows(d) /\ build = "debug"

(* ------------------------- the state machine -------------------------- *)

\* the machine as a value
self ==
    [current_state    |-> current_state,
     next_state       |-> next_state,
     repetition_count |-> repetition_count,
     threshold        |-> threshold]

Init ==
    \E th \in 0..MaxThreshold, initial \in States :
        /\ current_state    = new(th, initial).current_state
        /\ next_state       = new(th, initial).next_state
        /\ repetition_count = new(th, initial).repetition_count
        /\ threshold        = new(th, initial).threshold
        /\ inital_state     = initial
        /\ panicked         = FALSE
        /\ calls            = <<>>
        /\ other            = NoOther

\* one call of update with a sample
Update ==
    /\ ~panicked
    /\ Len(calls) < MaxCalls
    /\ \E state \in States, build \in Builds :
        IF update_panics(self, state, build)
          THEN /\ panicked' = TRUE
               /\ UNCHANGED <<current_state, next_state, repetition_count,
                              threshold, inital_state, calls, other>>
          ELSE LET r == update(self, state) IN
               /\ current_state'    = r.d.current_state
               /\ next_state'       = r.d.next_state
               /\ repetition_count' = r.d.repetition_count
               /\ threshold'        = r.d.threshold
               /\ calls' = Append(calls, [state |-> state, ret |-> r.ret,
                                          d |-> r.d])
               /\ UNCHANGED <<inital_state, panicked, other>>

Next == Update

Spec == Init /\ [][Next]_vars

(* ------------- the machine over the whole range of u8 ----------------- *)

\* a machine of any threshold the counter type can hold
InitU8 ==
    \E th \in 0..CounterMax, initial \in States :
        /\ current_state    = new(th, initial).current_state
        /\ next_state       = new(th, initial).next_state
        /\ repetition_count = new(th, initial).repetition_count
        /\ threshold        = new(th, initial).threshold
        /\ inital_state     = initial
        /\ panicked         = FALSE
        /\ calls            = <<>>
        /\ other            = NoOther

\* one call of update with a sample, of any number of calls; the calls are
\* not recorded
UpdateU8 ==
    /\ ~panicked
    /\ \E state \in States, build \in Builds :
        IF update_panics(self, state, build)
          THEN /\ panicked' = TRUE
               /\ UNCHANGED <<current_state, next_state, repetition_count,
                              threshold, inital_state, calls, other>>
          ELSE LET r == update(self, state) IN
               /\ current_state'    = r.d.current_state
               /\ next_state'       = r.d.next_state
               /\ repetition_count' = r.d.repetition_count
               /\ threshold'        = r.d.threshold
               /\ UNCHANGED <<inital_state, panicked, calls, other>>

NextU8 == UpdateU8

SpecU8 == InitU8 /\ [][NextU8]_vars

(* ------------------- update on any field values ---------------------- *)

\* a machine whose four fields hold any values of their types
InitAny ==
    \E c \in States, n \in States, r \in 0..CounterMax, th \in 0..CounterMax :
        /\ current_state    = c
        /\ next_state       = n
        /\ repetition_count = r
        /\ threshold        = th
        /\ inital_state     = c
        /\ panicked         = FALSE
        /\ calls            = <<>>
        /\ other            = NoOther

NextAny == UpdateU8

SpecAny == InitAny /\ [][NextAny]_vars

(* ------------------------- the pin adapter ---------------------------- *)

\* enum PinState
PinState == {"Low", "High"}

\* SmallPinDebouncer::new
SmallPinDebouncer_new(th, initial) == [inner |-> new(th, initial)]

\* SmallPinDebouncer::update
SmallPinDebouncer_update(p, state) ==
    LET r == update(p.inner, state)
    IN [p |-> [inner |-> r.d], ret |-> r.ret]

\* is_high, had it asked for the other level
is_high_AsksLow(p) == is_state(p.inner, "Low")

\* SmallPinDebouncer::is_high
is_high(p) == is_state(p.inner, "High")

\* SmallPinDebouncer::is_low
is_low(p) == is_state(p.inner, "Low")

\* the adapter as a value: its only field is the generic machine
pin_self == [inner |-> self]

InitPin ==
    \E th \in 0..MaxThreshold, initial \in PinState :
        LET p == SmallPinDebouncer_new(th, initial) IN
        /\ current_state    = p.inner.current_state
        /\ next_state       = p.inner.next_state
        /\ repetition_count = p.inner.repetition_count
        /\ threshold        = p.inner.threshold
        /\ inital_state     = initial
        /\ panicked         = FALSE
        /\ calls            = <<>>
        /\ other            = NoOther

\* one call of SmallPinDebouncer::update, followed by the two queries
UpdatePin ==
    /\ ~panicked
    /\ Len(calls) < MaxCalls
    /\ \E state \in PinState, build \in Builds :
        IF update_panics(pin_self.inner, state, build)
          THEN /\ panicked' = TRUE
               /\ UNCHANGED <<current_state, next_state, repetition_count,
                              threshold, inital_state, calls, other>>
          ELSE LET r == SmallPinDebouncer_update(pin_self, state) IN
               /\ current_state'    = r.p.inner.current_state
               /\ next_state'       = r.p.inner.next_state
               /\ repetition_count' = r.p.inner.repetition_count
               /\ threshold'        = r.p.inner.threshold
               /\ calls' = Append(calls, [state |-> state, ret |-> r.ret,
                                          d |-> r.p.inner,
                                          is_high |-> is_high(r.p),
                                          is_low |-> is_low(r.p)])
               /\ UNCHANGED <<inital_state, panicked, other>>

NextPin == UpdatePin

SpecPin == InitPin /\ [][NextPin]_vars

(* ------------------------- two instances ------------------------------ *)

\* two machines, each constructed with its own arguments
InitTwo ==
    \E th \in 0..MaxThreshold, initial \in States,
       th2 \in 0..MaxThreshold, initial2 \in States :
        /\ current_state    = new(th, initial).current_state
        /\ next_state       = new(th, initial).next_state
        /\ repetition_count = new(th, initial).repetition_count
        /\ threshold        = new(th, initial).threshold
        /\ inital_state     = initial
        /\ panicked         = FALSE
        /\ calls            = <<>>
        /\ other            = [d |-> new(th2, initial2),
                               inital_state |-> initial2,
                               calls |-> <<>>]

\* the two machines have not yet been given MaxInterleaved samples
MayInterleave ==
    /\ other # NoOther
    /\ Len(calls) + Len(other.calls) < MaxInterleaved

\* one call of update on the first machine
UpdateFirst == MayInterleave /\ Update

\* update on the second machine, had the counter been shared by the two
UpdateOther_SharedCounter ==
    /\ MayInterleave
    /\ ~panicked
    /\ \E state \in States :
          LET r == update(other.d, state) IN
          /\ other' = [other EXCEPT
                          !.d = r.d,
                          !.calls = Append(@, [state |-> state,
                                               ret |-> r.ret, d |-> r.d])]
          /\ repetition_count' = r.d.repetition_count
          /\ UNCHANGED <<current_state, next_state, threshold,
                         inital_state, panicked, calls>>

\* one call of update on the second machine
UpdateOther ==
    /\ MayInterleave
    /\ ~panicked
    /\ \E state \in States, build \in Builds :
        IF update_panics(other.d, state, build)
          THEN /\ panicked' = TRUE
               /\ UNCHANGED <<current_state, next_state, repetition_count,
                              threshold, inital_state, calls, other>>
          ELSE LET r == update(other.d, state) IN
               /\ other' = [other EXCEPT
                               !.d = r.d,
                               !.calls = Append(@, [state |-> state,
                                                    ret |-> r.ret,
                                                    d |-> r.d])]
               /\ UNCHANGED <<current_state, next_state, repetition_count,
                              threshold, inital_state, panicked, calls>>

NextTwo == UpdateFirst \/ UpdateOther

SpecTwo == InitTwo /\ [][NextTwo]_vars

(* ------------------- reading the recorded calls ----------------------- *)

\* the sample given to the i-th call of update
Sample(i) == calls[i].state

\* what the i-th call returned
Ret(i) == calls[i].ret

\* the machine right after the i-th call
Post(i) == calls[i].d

\* the machine right before the i-th call
Pre(i) == IF i = 1 THEN new(threshold, inital_state) ELSE calls[i - 1].d

\* the calls i..j were all given the sample v
AllSamples(i, j, v) == \A k \in i..j : Sample(k) = v

\* every call of i..j returned None
AllNone(i, j) == \A k \in i..j : Ret(k) = None

Calls == 1..Len(calls)

(* ------------------------------ C1 ------------------------------------ *)

\* C1 (as claimed): for every threshold H >= 1 and distinct A, B, from a
\* machine settled on A the first H-1 consecutive update(B) return None and
\* the H-th returns Some(Edge{A, B}) and leaves is_state(B) true.
C1_MonotonicConfirmation ==
    \A i \in Calls : \A j \in i..Len(calls) : \A A \in States, B \in States :
        ( /\ threshold >= 1
          /\ A # B
          /\ is_state(Pre(i), A)
          /\ AllSamples(i, j, B)
          /\ j - i + 1 <= threshold )
        => /\ (j - i + 1 < threshold => Ret(j) = None)
           /\ (j - i + 1 = threshold =>
                 /\ Ret(j) = Some(Edge(A, B))
                 /\ is_state(Post(j), B))

(* ------------------------------ C2 ------------------------------------ *)

\* a burst i..j-1 of samples that all differ from A, on a machine settled on
\* A, of 1 to H-1 samples, followed by the sample A at call j
GlitchBurst(i, j, A) ==
    /\ threshold >= 2
    /\ is_state(Pre(i), A)
    /\ j - i >= 1
    /\ j - i <= threshold - 1
    /\ \A k \in i..(j - 1) : Sample(k) # A
    /\ Sample(j) = A

\* call i confirmed an edge to B, call i+1 sampled the old value and the
\* calls i+2..j all sampled B
GlitchAfterEdge(i, j, B) ==
    /\ threshold >= 2
    /\ Ret(i) # None
    /\ Ret(i)[1].to = B
    /\ j >= i + 1
    /\ Sample(i + 1) = Ret(i)[1].from
    /\ AllSamples(i + 2, j, B)

\* C2: with threshold H >= 2, a burst of 1 to H-1 samples differing from the
\* settled value A followed by one A returns None on every call, keeps
\* current_state = A and makes is_state(A) true again; after an edge to B,
\* one sample of the old value followed by B samples never returns an edge.
C2_GlitchRejection ==
    \A i \in Calls : \A j \in i..Len(calls) : \A v \in States :
        /\ GlitchBurst(i, j, v) =>
              /\ AllNone(i, j)
              /\ \A k \in i..j : Post(k).current_state = v
              /\ is_state(Post(j), v)
        /\ GlitchAfterEdge(i, j, v) => AllNone(i + 1, j)

\* a burst of two different values was rejected and, later, an edge was
\* followed by the old value and the new one
C2_Witness ==
    /\ \E i \in Calls : \E j \in i..Len(calls) : \E v \in States :
          /\ GlitchBurst(i, j, v)
          /\ j - i = 2
          /\ Sample(i) # Sample(i + 1)
    /\ \E i \in Calls : \E j \in i..Len(calls) : \E v \in States :
          /\ GlitchAfterEdge(i, j, v)
          /\ j >= i + 2

(* ------------------------------ C3 ------------------------------------ *)

\* on a machine settled on A the calls i.. sample B, A and then H-1 times B
Readback(i, A, B) ==
    /\ threshold >= 2
    /\ A # B
    /\ i + threshold <= Len(calls)
    /\ is_state(Pre(i), A)
    /\ Sample(i) = B
    /\ Sample(i + 1) = A
    /\ AllSamples(i + 2, i + threshold, B)

\* C3 (as claimed): after B, A and H-1 more B the machine confirms B on the
\* last of those samples, the H-th B overall.
C3_ReadbackKeepsProgress ==
    \A i \in Calls : \A A \in States, B \in States :
        Readback(i, A, B) =>
            /\ Ret(i + threshold) = Some(Edge(A, B))
            /\ is_state(Post(i + threshold), B)

\* C3 (amended): after B, A and H-1 more B no call has returned an edge, the
\* stable value is still A and is_state(B) is false; the interleaved A has
\* restarted the streak, and the edge Edge{A, B} is returned by the next B,
\* the H-th consecutive B after the A sample.
C3_ReadbackRestartsStreak ==
    \A i \in Calls : \A A \in States, B \in States :
        Readback(i, A, B) =>
            /\ AllNone(i, i + threshold)
            /\ Post(i + threshold).current_state = A
            /\ ~is_state(Post(i + threshold), B)
            /\ ( /\ i + threshold + 1 <= Len(calls)
                 /\ Sample(i + threshold + 1) = B )
               => /\ Ret(i + threshold + 1) = Some(Edge(A, B))
                  /\ is_state(Post(i + threshold + 1), B)

\* the readback sequence was followed by one more B, with threshold 3
C3_Witness ==
    \E i \in Calls : \E A \in States, B \in States :
        /\ Readback(i, A, B)
        /\ threshold >= 3
        /\ i + threshold + 1 <= Len(calls)
        /\ Sample(i + threshold + 1) = B

(* ------------------------------ C4 ------------------------------------ *)

\* on a machine settled on A the calls i..i+k-1 sample B (1 <= k < H) and
\* the call i+k samples a third value C
Outlier(i, k, A, B, C) ==
    /\ threshold >= 2
    /\ A # B /\ A # C /\ B # C
    /\ k >= 1
    /\ k < threshold
    /\ i + k <= Len(calls)
    /\ is_state(Pre(i), A)
    /\ AllSamples(i, i + k - 1, B)
    /\ Sample(i + k) = C

\* C4: after k samples of B (1 <= k < H) and one sample of C on a machine
\* settled on A, is_state is false for A, B and C, no edge has been returned,
\* and Edge{A, C} is returned on the H-th consecutive C sample, not earlier.
C4_OutlierResetsStreak ==
    \A i \in Calls : \A k \in 1..MaxThreshold :
      \A A \in States, B \in States, C \in States :
        Outlier(i, k, A, B, C) =>
            /\ AllNone(i, i + k)
            /\ \A v \in {A, B, C} : ~is_state(Post(i + k), v)
            /\ \A j \in (i + k)..Len(calls) :
                 ( /\ AllSamples(i + k, j, C)
                   /\ j - (i + k) + 1 <= threshold )
                 => /\ (j - (i + k) + 1 < threshold => Ret(j) = None)
                    /\ (j - (i + k) + 1 = threshold =>
                          Ret(j) = Some(Edge(A, C)))

\* two samples of B, then three of C, with threshold 3
C4_Witness ==
    \E i \in Calls : \E A \in States, B \in States, C \in States :
        /\ Outlier(i, 2, A, B, C)
        /\ i + 2 + threshold - 1 <= Len(calls)
        /\ AllSamples(i + 2, i + 2 + threshold - 1, C)

(* ------------------------------ C5 ------------------------------------ *)

\* C5: in a state where is_state(v) is true, update(v) returns None, leaves
\* current_state, next_state and repetition_count unchanged and is_state(v)
\* true, however often it is repeated.
C5_SettledIdempotent ==
    \A i \in Calls :
        is_state(Pre(i), Sample(i)) =>
            /\ Ret(i) = None
            /\ Post(i) = Pre(i)
            /\ is_state(Post(i), Sample(i))

\* update(v) was called twice in a row on a machine settled on v whose
\* counter is below its threshold
C5_Witness ==
    \E i \in Calls :
        /\ i + 1 <= Len(calls)
        /\ is_state(Pre(i), Sample(i))
        /\ Sample(i + 1) = Sample(i)
        /\ Pre(i).repetition_count < Pre(i).threshold

(* ------------------------------ C6 ------------------------------------ *)

\* C6: is_state(value) is true exactly when current_state = value and
\* next_state = value; while a transition is pending it is false for the
\* stable value and for the candidate value alike.
C6_IsStateMeansSettled ==
    /\ \A v \in States :
          is_state(self, v) <=> (current_state = v /\ next_state = v)
    /\ current_state # next_state =>
          /\ ~is_state(self, current_state)
          /\ ~is_state(self, next_state)

\* a transition is pending after two samples of the candidate
C6_Witness ==
    /\ current_state # next_state
    /\ repetition_count = 2

(* ------------------------------ C7 ------------------------------------ *)

\* C7: a call of update returns Some(edge) exactly when, right before it,
\* current_state # next_state, the sample equals next_state and
\* repetition_count + 1 >= threshold; every other call returns None.
C7_EdgeExactlyOnThreshold ==
    \A i \in Calls :
        (Ret(i) # None) <=>
            /\ Pre(i).current_state # Pre(i).next_state
            /\ Sample(i) = Pre(i).next_state
            /\ Pre(i).repetition_count + 1 >= Pre(i).threshold

\* a call returned an edge after the counter was incremented at least once
C7_Witness ==
    \E i \in Calls :
        /\ Ret(i) # None
        /\ Pre(i).repetition_count >= 2

(* ------------------------------ C8 ------------------------------------ *)

\* C8: when update(sample) returns Some(Edge{from, to}), from is the
\* current_state before the call, to is the sample, and after the call
\* current_state = next_state = sample and repetition_count = threshold, so
\* is_state(sample) is true and the next update(sample) returns None.
C8_PostStateOfEdge ==
    \A i \in Calls :
        Ret(i) # None =>
            /\ Ret(i)[1].from = Pre(i).current_state
            /\ Ret(i)[1].to = Sample(i)
            /\ Post(i).current_state = Sample(i)
            /\ Post(i).next_state = Sample(i)
            /\ Post(i).repetition_count = Post(i).threshold
            /\ is_state(Post(i), Sample(i))
            /\ (i + 1 <= Len(calls) /\ Sample(i + 1) = Sample(i))
                  => Ret(i + 1) = None

\* an edge was returned with threshold 3 and the sample was repeated
C8_Witness ==
    \E i \in Calls :
        /\ Ret(i) # None
        /\ threshold >= 3
        /\ i + 1 <= Len(calls)
        /\ Sample(i + 1) = Sample(i)

(* ------------------------------ C9 ------------------------------------ *)

\* C9 (as claimed): repetition_count <= threshold in every reachable state,
\* for every threshold value and every sample sequence.
C9_CountAtMostThreshold == repetition_count <= threshold

(* ------------------------------ C10 ----------------------------------- *)

\* C10: after new(threshold, v) current_state = next_state = v and
\* repetition_count = threshold, is_state(v) is true and is_state(w) false
\* for every other w, and update(v) on the fresh machine returns None.
C10_ConstructionSettled ==
    /\ Len(calls) = 0 =>
          /\ current_state = inital_state
          /\ next_state = inital_state
          /\ repetition_count = threshold
          /\ is_state(self, inital_state)
          /\ \A w \in States \ {inital_state} : ~is_state(self, w)
    /\ (Len(calls) >= 1 /\ Sample(1) = inital_state) => Ret(1) = None

\* the first call on a fresh machine of threshold 0 sampled its initial value
C10_Witness ==
    /\ Len(calls) = 1
    /\ Sample(1) = inital_state
    /\ threshold = 0

(* ------------------------------ C11 ----------------------------------- *)

\* C11: current_state after a call of update differs from current_state
\* before it exactly when the call returned Some(edge); a call that returns
\* None leaves current_state unchanged.
C11_StableChangesOnlyByEdge ==
    \A i \in Calls :
        /\ (Post(i).current_state # Pre(i).current_state) <=> (Ret(i) # None)
        /\ Ret(i) = None => Post(i).current_state = Pre(i).current_state

\* one call changed the stable value and a later call, which sampled a
\* value other than the stable one, did not
C11_Witness ==
    \E i \in Calls : \E j \in Calls :
        /\ i < j
        /\ Ret(i) # None
        /\ Ret(j) = None
        /\ Sample(j) # Pre(j).current_state

(* ------------------------------ C12 ----------------------------------- *)

\* C12 (as claimed): on a machine of threshold 0 settled on A the first
\* sample B # A returns Some(Edge{A, B}) and leaves is_state(B) true.
C12_ThresholdZeroConfirmsAtOnce ==
    \A i \in Calls : \A A \in States, B \in States :
        ( /\ threshold = 0
          /\ A # B
          /\ is_state(Pre(i), A)
          /\ Sample(i) = B )
        => /\ Ret(i) = Some(Edge(A, B))
           /\ is_state(Post(i), B)

(* ------------------------------ C14 ----------------------------------- *)

\* the four rows of the decision table, in priority order, in unbounded
\* integer arithmetic
DecisionTable(C, N, R, H, s) ==
    IF s = C THEN [C |-> C, N |-> s, R |-> R, ret |-> None]
    ELSE IF s # N THEN [C |-> C, N |-> s, R |-> 1, ret |-> None]
    ELSE IF R + 1 < H THEN [C |-> C, N |-> s, R |-> R + 1, ret |-> None]
    ELSE [C |-> s, N |-> s, R |-> H, ret |-> Some(Edge(C, N))]

\* the row of the table that applies
DecisionRow(C, N, R, H, s) ==
    IF s = C THEN 1 ELSE IF s # N THEN 2 ELSE IF R + 1 < H THEN 3 ELSE 4

\* the row that applied to the i-th call
RowOfCall(i) ==
    DecisionRow(Pre(i).current_state, Pre(i).next_state,
                Pre(i).repetition_count, Pre(i).threshold, Sample(i))

\* C14: for every reachable state (C, N, R, H) with H >= 1 and every sample
\* the value returned by update and the state it leaves are those of the
\* decision table, and the threshold is the same.
C14_DecisionTable ==
    \A i \in Calls :
        threshold >= 1 =>
            LET t == DecisionTable(Pre(i).current_state, Pre(i).next_state,
                                   Pre(i).repetition_count,
                                   Pre(i).threshold, Sample(i))
            IN /\ Ret(i) = t.ret
               /\ Post(i).current_state = t.C
               /\ Post(i).next_state = t.N
               /\ Post(i).repetition_count = t.R
               /\ Post(i).threshold = Pre(i).threshold

\* each of the four rows has applied to some call of one machine
C14_Witness ==
    /\ threshold >= 1
    /\ \A row \in 1..4 : \E i \in Calls : RowOfCall(i) = row

(* ------------------------------ C15 ----------------------------------- *)

\* C15: update(sample) with sample = current_state leaves current_state,
\* repetition_count and threshold unchanged, sets next_state to current_state
\* and returns None, also when a transition was pending and the counter is
\* below the threshold.
C15_StableSampleTouchesCandidateOnly ==
    \A i \in Calls :
        Sample(i) = Pre(i).current_state =>
            /\ Ret(i) = None
            /\ Post(i).current_state = Pre(i).current_state
            /\ Post(i).repetition_count = Pre(i).repetition_count
            /\ Post(i).threshold = Pre(i).threshold
            /\ Post(i).next_state = Pre(i).current_state

\* the stable value was sampled while a transition was pending with the
\* counter above one and below the threshold
C15_Witness ==
    \E i \in Calls :
        /\ Sample(i) = Pre(i).current_state
        /\ Pre(i).next_state # Pre(i).current_state
        /\ Pre(i).repetition_count > 1
        /\ Pre(i).repetition_count < Pre(i).threshold

(* ------------------------------ C16 ----------------------------------- *)

\* a fresh machine new(H, A) was fed H samples of B and then H samples of A
RoundTrip(A, B) ==
    /\ threshold >= 2
    /\ A # B
    /\ inital_state = A
    /\ Len(calls) >= 2 * threshold
    /\ AllSamples(1, threshold, B)
    /\ AllSamples(threshold + 1, 2 * threshold, A)

\* C16: for H >= 2 a fresh new(H, A) fed H samples of B and H samples of A
\* returns Some(Edge{A, B}) on sample H, Some(Edge{B, A}) on sample 2H, None
\* on every other sample, and ends in the state of a fresh new(H, A).
C16_RoundTrip ==
    \A A \in States, B \in States :
        RoundTrip(A, B) =>
            /\ \A k \in 1..(2 * threshold) :
                  Ret(k) = IF k = threshold THEN Some(Edge(A, B))
                           ELSE IF k = 2 * threshold THEN Some(Edge(B, A))
                           ELSE None
            /\ Post(2 * threshold).current_state = A
            /\ Post(2 * threshold).next_state = A
            /\ Post(2 * threshold).repetition_count = threshold
            /\ Post(2 * threshold).threshold = threshold

\* the round trip was made with threshold 3
C16_Witness ==
    /\ threshold = 3
    /\ \E A \in States, B \in States : RoundTrip(A, B)

(* ------------------------------ C20 ----------------------------------- *)

\* the calls k-H+1..k exist and were all given the sample v
RunEndsAt(k, v) ==
    /\ k - threshold + 1 >= 1
    /\ AllSamples(k - threshold + 1, k, v)

\* the stable value of the run-length reference filter after n samples: it
\* switches exactly when the last H samples are equal and differ from it
RECURSIVE RefStable(_)
RefStable(n) ==
    IF n = 0 THEN inital_state
    ELSE LET c == RefStable(n - 1)
         IN IF RunEndsAt(n, Sample(n)) /\ Sample(n) # c
              THEN Sample(n)
              ELSE c

\* what the reference filter reports on its n-th sample
RefRet(n) ==
    IF RefStable(n) # RefStable(n - 1)
      THEN Some(Edge(RefStable(n - 1), RefStable(n)))
      ELSE None

\* C20: for H >= 2 the k-th call returns Some(Edge{c, v}), c the stable value
\* before it, exactly when the samples k-H+1..k all equal v and v # c; the
\* returned values and the stable values are those of the reference filter,
\* and a call that ends no such run returns None.
C20_RunLengthFilter ==
    threshold >= 2 =>
        \A k \in Calls :
            /\ \A v \in States :
                  (Ret(k) = Some(Edge(Pre(k).current_state, v)))
                  <=> (RunEndsAt(k, v) /\ v # Pre(k).current_state)
            /\ Ret(k) # None => Ret(k)[1].from = Pre(k).current_state
            /\ Ret(k) = RefRet(k)
            /\ Post(k).current_state = RefStable(k)

\* two edges were returned with threshold 3, and in between a candidate
\* lost its streak to a sample of the stable value
C20_Witness ==
    /\ threshold = 3
    /\ \E i \in Calls : \E j \in Calls : \E k \in Calls :
          /\ i < j /\ j < k
          /\ Ret(i) # None
          /\ Ret(k) # None
          /\ Pre(j).next_state # Pre(j).current_state
          /\ Sample(j) = Pre(j).current_state

(* ------------------------------ C13 ----------------------------------- *)

\* C13: with the u8 counter, for every threshold 0..255, in every reachable
\* state and for every sample, repetition_count + 1 is evaluated only with
\* repetition_count <= 254, so no call of update overflows or panics.
C13_NoOverflow ==
    /\ ~panicked
    /\ \A state \in States :
          evaluates_add(self, state) =>
              /\ repetition_count <= CounterMax - 1
              /\ ~overflows(self)

\* a machine of threshold 255 is one sample short of confirming: it will
\* evaluate 254 + 1
C13_Witness ==
    /\ threshold = CounterMax
    /\ current_state # next_state
    /\ repetition_count = CounterMax - 1

(* ------------------------------ C17 ----------------------------------- *)

\* the generic Debouncer<PinState, u8> built with the same arguments, after
\* it was given the first n recorded samples
RECURSIVE GenericAfter(_)
GenericAfter(n) ==
    IF n = 0 THEN new(threshold, inital_state)
    ELSE update(GenericAfter(n - 1), Sample(n)).d

\* C17: for every threshold, initial PinState and sample sequence, each call
\* of SmallPinDebouncer::update returns what Debouncer::update returns on the
\* same inputs, and after it is_high() = is_state(High) and
\* is_low() = is_state(Low) of that generic machine.
C17_PinAdapterForwards ==
    /\ is_high(pin_self) = is_state(GenericAfter(Len(calls)), "High")
    /\ is_low(pin_self) = is_state(GenericAfter(Len(calls)), "Low")
    /\ \A i \in Calls :
          LET g == update(GenericAfter(i - 1), Sample(i))
          IN /\ Ret(i) = g.ret
             /\ calls[i].is_high = is_state(g.d, "High")
             /\ calls[i].is_low = is_state(g.d, "Low")

\* the adapter has reported a rising edge, was high after it, and was
\* neither high nor low after a later call
C17_Witness ==
    \E i \in Calls : \E j \in Calls :
        /\ i < j
        /\ Ret(i) = Some(Edge("Low", "High"))
        /\ calls[i].is_high
        /\ ~calls[j].is_high
        /\ ~calls[j].is_low

(* ------------------------------ C18 ----------------------------------- *)

\* the second machine alone, after it was given the first n samples of its
\* own calls
RECURSIVE OtherAfter(_)
OtherAfter(n) ==
    IF n = 0 THEN new(other.d.threshold, other.inital_state)
    ELSE update(OtherAfter(n - 1), other.calls[n].state).d

\* each machine is in the state, and has returned the values, that its own
\* samples alone produce
OwnSamplesOnly ==
    /\ self = GenericAfter(Len(calls))
    /\ \A i \in Calls :
          [d |-> Post(i), ret |-> Ret(i)]
              = update(GenericAfter(i - 1), Sample(i))
    /\ other.d = OtherAfter(Len(other.calls))
    /\ \A i \in 1..Len(other.calls) :
          [d |-> other.calls[i].d, ret |-> other.calls[i].ret]
              = update(OtherAfter(i - 1), other.calls[i].state)

\* a call on one machine leaves the four fields of the other unchanged
OtherUntouched ==
    /\ calls' # calls => other'.d = other.d
    /\ other'.calls # other.calls =>
          /\ current_state' = current_state
          /\ next_state' = next_state
          /\ repetition_count' = repetition_count
          /\ threshold' = threshold

\* C18: when two Debouncer instances are driven by interleaved update calls,
\* an update on one leaves the other's current_state, next_state,
\* repetition_count and threshold unchanged, and the edges each returns
\* depend only on its own samples.
C18_IndependentInstances == [](OwnSamplesOnly) /\ [][OtherUntouched]_vars

\* two machines of different thresholds have each returned an edge
C18_Witness ==
    /\ other # NoOther
    /\ \E i \in Calls : Ret(i) # None
    /\ \E i \in 1..Len(other.calls) : other.calls[i].ret # None
    /\ threshold # other.d.threshold

(* ------------------------------ C21 ----------------------------------- *)

\* the number of most recent consecutive samples equal to v
TrailingRun(v) ==
    Cardinality({n \in Calls : AllSamples(Len(calls) - n + 1, Len(calls), v)})

\* C21: in every reachable state with a pending transition,
\* repetition_count is the number of most recent consecutive samples equal
\* to next_state, and 1 <= repetition_count <= threshold - 1 when
\* threshold >= 2.
C21_StreakCounter ==
    current_state # next_state =>
        /\ repetition_count = TrailingRun(next_state)
        /\ threshold >= 2 =>
              /\ 1 <= repetition_count
              /\ repetition_count <= threshold - 1

\* a candidate has been sampled three times in a row after other samples
\* and is still pending
C21_Witness ==
    /\ current_state # next_state
    /\ repetition_count = 3
    /\ Len(calls) > 3

(* ------------------------------ C22 ----------------------------------- *)

\* the call j returned an edge and no call between j and i did
PreviousEdge(j, i) ==
    /\ j < i
    /\ Ret(j) # None
    /\ \A k \in (j + 1)..(i - 1) : Ret(k) = None

\* C22: every returned edge has from # to; the first edge has from equal to
\* the initial_state given to new; every later edge has from equal to the to
\* of the edge returned before it.
C22_EdgesFormChain ==
    \A i \in Calls :
        Ret(i) # None =>
            /\ Ret(i)[1].from # Ret(i)[1].to
            /\ AllNone(1, i - 1) => Ret(i)[1].from = inital_state
            /\ \A j \in Calls :
                  PreviousEdge(j, i) => Ret(i)[1].from = Ret(j)[1].to

\* three edges were returned, through all three values
C22_Witness ==
    \E i \in Calls : \E j \in Calls : \E k \in Calls :
        /\ PreviousEdge(i, j)
        /\ PreviousEdge(j, k)
        /\ Ret(k) # None
        /\ Ret(i)[1].from # Ret(j)[1].to

(* ------------------------------ C23 ----------------------------------- *)

\* the larger of the threshold and two
SettleBound == IF threshold >= 2 THEN threshold ELSE 2

\* C23: from every reachable state and for every threshold H, when the
\* calls i..j all sample one value v, is_state(v) is true after at most
\* max(H, 2) of them, stays true once it is, and at most one edge, with
\* to = v, is returned by those calls.
C23_BoundedStabilisation ==
    \A i \in Calls : \A j \in i..Len(calls) : \A v \in States :
        AllSamples(i, j, v) =>
            /\ j - i + 1 >= SettleBound => is_state(Post(j), v)
            /\ \A k \in i..j : is_state(Post(k), v) => is_state(Post(j), v)
            /\ \A k \in i..j : Ret(k) # None => Ret(k)[1].to = v
            /\ Cardinality({k \in i..j : Ret(k) # None}) <= 1

\* after other samples, a run of four samples of one value settled a
\* machine of threshold 4 on its fourth sample and not before, and the run
\* went on
C23_Witness ==
    \E i \in Calls :
        /\ threshold = 4
        /\ i > 1
        /\ i + 4 <= Len(calls)
        /\ AllSamples(i, i + 4, Sample(i))
        /\ ~is_state(Post(i + 2), Sample(i))
        /\ Ret(i + 3) # None
        /\ is_state(Post(i + 4), Sample(i))

(* ------------------------------ C24 ----------------------------------- *)

\* C24: for every threshold H >= 2 two calls that both return an edge are
\* at least H calls apart, and for every threshold, 0 and 1 included, two
\* consecutive calls never both return an edge.
C24_MinimumEdgeSpacing ==
    \A i \in Calls : \A j \in Calls :
        (i < j /\ Ret(i) # None /\ Ret(j) # None) =>
            /\ j - i >= 2
            /\ threshold >= 2 => j - i >= threshold

\* two edges exactly threshold = 3 calls apart
C24_Witness ==
    \E i \in Calls : \E j \in Calls :
        /\ threshold = 3
        /\ j = i + 3
        /\ Ret(i) # None
        /\ Ret(j) # None

(* ------------------------------ C25 ----------------------------------- *)

\* C25: in every reachable state at most one value v has is_state(v) true;
\* is_low() and is_high() of the pin adapter are never both true, and both
\* are false exactly when a transition is pending.
C25_ReportedStatesExclusive ==
    /\ \A v \in PinState : \A w \in PinState :
          (is_state(self, v) /\ is_state(self, w)) => v = w
    /\ Cardinality({v \in PinState : is_state(self, v)}) <= 1
    /\ ~(is_low(pin_self) /\ is_high(pin_self))
    /\ (~is_low(pin_self) /\ ~is_high(pin_self))
          <=> (current_state # next_state)

\* the adapter was high, then neither high nor low, and is low now
C25_Witness ==
    \E i \in Calls : \E j \in Calls :
        /\ i < j
        /\ calls[i].is_high
        /\ ~calls[j].is_high /\ ~calls[j].is_low
        /\ is_low(pin_self)

(* ------------------------------ C26 ----------------------------------- *)

\* C26: for every state (current_state, next_state, repetition_count,
\* threshold) over an integer counter and every sample exactly one of the
\* four conditions of update holds, so the trailing else is never executed.
C26_BranchesPartition ==
    \A state \in States :
        /\ Cardinality({k \in 1..4 : branch_condition(k, self, state)}) = 1
        /\ branch_taken(self, state) # 5
        /\ branch_condition(branch_taken(self, state), self, state)

\* update has changed the stable value and a later call has left a
\* transition pending on the boundary between the third and the fourth
\* condition
C26_Witness ==
    /\ inital_state # current_state
    /\ current_state # next_state
    /\ repetition_count + 1 = threshold
    /\ threshold = CounterMax

(* ------------------------------ C27 ----------------------------------- *)

\* the machine new(th, inital_state) after it was given the first n
\* recorded samples
RECURSIVE MachineAfter(_, _)
MachineAfter(th, n) ==
    IF n = 0 THEN new(th, inital_state)
    ELSE update(MachineAfter(th, n - 1), Sample(n)).d

\* C27: for every initial value and sample sequence, machines built with
\* threshold 0, 1 and 2 return the same value on every update and give the
\* same is_state answers after it; each confirms on the second of two
\* consecutive divergent samples.
C27_SmallThresholdsEquivalent ==
    threshold \in 0..2 =>
        \A i \in Calls :
            /\ \A th \in 0..2 :
                  LET r == update(MachineAfter(th, i - 1), Sample(i))
                  IN /\ r.ret = Ret(i)
                     /\ \A v \in States :
                           is_state(r.d, v) = is_state(Post(i), v)
            /\ Ret(i) # None =>
                  /\ i >= 2
                  /\ Sample(i - 1) = Sample(i)
                  /\ Ret(i - 1) = None

\* a machine of threshold 0 has returned two edges and, in between, has
\* dropped a candidate
C27_Witness ==
    /\ threshold = 0
    /\ \E i \in Calls : \E j \in Calls : \E k \in Calls :
          /\ i < j /\ j < k
          /\ Ret(i) # None
          /\ Ret(k) # None
          /\ Pre(j).next_state # Pre(j).current_state
          /\ Sample(j) # Pre(j).next_state

(* ------------------------------ C28 ----------------------------------- *)

\* C28: every call of update, whichever branch it takes and whatever it
\* returns, leaves the threshold field as it was set by new.
C28_ThresholdImmutable == [][threshold' = threshold]_vars

\* a machine of threshold 3 has taken each of the four branches
C28_Witness ==
    /\ threshold = 3
    /\ \A b \in 1..4 : \E i \in Calls : branch_taken(Pre(i), Sample(i)) = b

(* ------------------------------ C29 ----------------------------------- *)

\* the machine that before call i had the fields of the recorded one but
\* the counter r, after it was given the samples of the calls i..n
RECURSIVE OtherCountAfter(_, _, _)
OtherCountAfter(i, r, n) ==
    IF n < i THEN [Pre(i) EXCEPT !.repetition_count = r]
    ELSE update(OtherCountAfter(i, r, n - 1), Sample(n)).d

\* C29: two machines with the same threshold and the same
\* current_state = next_state but different repetition_count return the same
\* value and give the same is_state answers on every subsequent sample
\* sequence.
C29_CounterUnobservableWhileSettled ==
    \A i \in Calls : \A r \in 0..(threshold + 1) :
        Pre(i).current_state = Pre(i).next_state =>
            LET last == Len(calls)
                a == update(OtherCountAfter(i, r, last - 1), Sample(last))
            IN /\ a.ret = Ret(last)
               /\ \A v \in States : is_state(a.d, v) = is_state(Post(last), v)

\* a machine of threshold 3 was settled with a stale counter left by a
\* readback of the stable value, and has returned an edge since
C29_Witness ==
    \E i \in Calls :
        /\ threshold = 3
        /\ i > 1
        /\ Pre(i).current_state = Pre(i).next_state
        /\ Pre(i).repetition_count < threshold
        /\ Ret(Len(calls)) # None

====
